---- MODULE Spec2Model ----
(***************************************************************************)
(* A model of pynanocoin's frontier service (frontier_service.py): the     *)
(* three storage backends, the crawl loop with its peer registry and       *)
(* blacklist, and the query server with its connection limiter.            *)
(***************************************************************************)
EXTENDS Integers, Sequences, FiniteSets, Bags, TLC

VARIABLES
    backend,        \* which frontier_database variant main() constructed
    ram_frontiers,  \* store_in_ram_interface.__frontiers: list of object references
    heap,           \* the frontier_entry objects the in-memory list refers to
    lmdb_kv,        \* store_in_lmdb: key (account) -> value (frontier hash)
    Frontiers,      \* my_sql_db: rows of table Frontiers
    Peers,          \* my_sql_db: primary keys of table Peers
    cache,          \* my_sql_db.__cache: pending VALUES tuples
    peers_stored,   \* my_sql_db.peers_stored
    ret,            \* result of the last storage call made directly on the backend
    written,        \* history: account -> hash of the last add_frontier, NoHash after remove_frontier
    updated,        \* history: account -> whether its last two calls were add_frontier
    snapshot,       \* the list the last get_all() returned, still held by its caller
    ncalls,         \* how many writes were made directly on the backend
    env,            \* the environment of the run: clients, peer source
    sem,            \* start_service: the value of the BoundedSemaphore
    accept_pc,      \* start_service: where the accept loop stands
    workers,        \* the live incoming_connection_handler threads (a bag of their states)
    last_exit,      \* history: how the worker that finished last left comm_thread
    peers,          \* frontier_service.peers: the registry, peer -> its score
    blacklist,      \* frontier_service.blacklist.blacklist: list of entries
    now,            \* time.time()
    ready,          \* frontier_service.ready
    crawl_pc,       \* where the thread running frontier_service.run stands
    crawl_exc,      \* the exception that ended that thread, if any
    todo,           \* single_pass: the peers the for loop has still to visit
    pull,           \* manage_peer_frontiers: the peer being pulled and the records read
    attempted,      \* history: the peers whose pull was started in the current pass
    failures,       \* history: peer -> number of its pulls that failed
    merged_score,   \* history: peer -> its score when merge_peers added it
    merged_at,      \* history: peer -> the time at which merge_peers added it
    expiry_time,    \* blacklist_manager.expiry_time: <<>> for None, <<ttl>> otherwise
    bl_ret,         \* result of the last call made directly on the blacklist_manager
    codec,          \* a packet taken through serialise and parse, with the results
    threads,        \* the threads calling the shared backend: thread -> where its call stands
    sizes           \* history: the numbers of entries the store has passed through

storeVars == <<ram_frontiers, heap, lmdb_kv, Frontiers, Peers, cache, peers_stored>>
histVars  == <<written, updated>>
apiVars   == <<ret, snapshot, ncalls>>
serverVars == <<sem, accept_pc, workers, last_exit>>
crawlVars == <<peers, blacklist, now, ready, crawl_pc, crawl_exc, todo, pull,
               attempted, failures, merged_score, merged_at>>

blVars == <<expiry_time, bl_ret>>

threadVars == <<threads, sizes>>

vars == <<backend, env, storeVars, histVars, apiVars, serverVars, crawlVars, blVars, codec, threadVars>>

----------------------------------------------------------------------------
(* Bounds of the model *)

\* The relational batch threshold (1024 in the program) scaled down so that a
\* flush happens within the explored runs.
BATCH_SIZE == 1
\* How many add_frontier and remove_frontier calls are made directly on the backend.
MaxCalls == 3
\* How many records a peer streams in one pull before the end marker.
MaxStream == 2
\* How many pulls of one peer fail.
MaxFailures == 2
\* How many clients connect at the same time, in the whole service.
MaxClients == 1
\* How many clients connect at the same time, when the limiter is what stops them.
MaxLimiterClients == 9
\* How many frontier_entry objects the in-memory backend may ever allocate.
MaxObjs == 3

----------------------------------------------------------------------------
(* Byte strings *)

AccountLen == 32
HashLen == 32

Rep(b, n) == [i \in 1..n |-> b]

ZeroAccount == Rep(0, AccountLen)
Account1 == Rep(1, AccountLen)
Account2 == Rep(2, AccountLen)
Accounts == {Account1, Account2}

HashAA == Rep(170, HashLen)
HashBB == Rep(187, HashLen)
Hashes == {HashAA, HashBB}

\* Python's None in a slot that otherwise holds bytes.
NoHash == <<-1>>

PeerIds == {"p1", "p2"}

\* binascii.hexlify: two hexadecimal digits per byte, high nibble first.
hexlify(bs) ==
    [i \in 1..(2 * Len(bs)) |->
        IF i % 2 = 1 THEN bs[(i + 1) \div 2] \div 16 ELSE bs[i \div 2] % 16]

\* hexlify(peer.serialise()): the peer's key in the relational tables.
peer_id(p) == <<"hex", p>>

\* bytes compared as LMDB compares keys: lexicographically.
RECURSIVE BytesLess(_, _)
BytesLess(a, b) ==
    IF b = <<>> THEN FALSE
    ELSE IF a = <<>> THEN TRUE
    ELSE IF Head(a) # Head(b) THEN Head(a) < Head(b)
    ELSE BytesLess(Tail(a), Tail(b))

----------------------------------------------------------------------------
(* Values handed around by the backends *)

\* frontier_request.frontier_entry(account, frontier_hash), a fresh object
frontier_entry(account, frontier_hash) ==
    [kind |-> "frontier_entry", id |-> 0, account |-> account, frontier_hash |-> frontier_hash]
\* a reference to an object of the in-memory list
ObjRef(i) ==
    [kind |-> "object", id |-> i, account |-> <<>>, frontier_hash |-> <<>>]
\* Python's None
NoneVal ==
    [kind |-> "None", id |-> 0, account |-> <<>>, frontier_hash |-> <<>>]
\* a row tuple returned by cursor.fetchone()
RowTuple(account_hex, hash_hex) ==
    [kind |-> "tuple", id |-> 0, account |-> account_hex, frontier_hash |-> hash_hex]

\* the outcome of a call: a value, or the exception it raised
Returned(v) == [val |-> v, exc |-> ""]
Raised(e) == [val |-> <<>>, exc |-> e]

----------------------------------------------------------------------------
(* store_in_ram_interface *)

\* get_frontier: linear scan, the first entry of the account or None (0)
RECURSIVE ram_scan(_, _)
ram_scan(account, i) ==
    IF i > Len(ram_frontiers) THEN 0
    ELSE IF heap[ram_frontiers[i]].account = account THEN ram_frontiers[i]
    ELSE ram_scan(account, i + 1)

ram_get_frontier(account) == ram_scan(account, 1)

\* add_frontier without the lookup: every entry is appended
ram_add_frontier_write_Append(frontier, existing_front) ==
    /\ heap' = Append(heap, [account |-> frontier.account,
                             frontier_hash |-> frontier.frontier_hash])
    /\ ram_frontiers' = Append(ram_frontiers, Len(heap) + 1)

\* add_frontier after its get_frontier: the found entry is updated in place,
\* or the new entry is appended
ram_add_frontier_write(frontier, existing_front) ==
    IF existing_front # 0
    THEN /\ heap' = [heap EXCEPT ![existing_front].frontier_hash = frontier.frontier_hash]
         /\ UNCHANGED ram_frontiers
    ELSE /\ heap' = Append(heap, [account |-> frontier.account,
                                  frontier_hash |-> frontier.frontier_hash])
         /\ ram_frontiers' = Append(ram_frontiers, Len(heap) + 1)

\* add_frontier run without another thread in between
ram_add_frontier(frontier, peer) ==
    ram_add_frontier_write(frontier, ram_get_frontier(frontier.account))

\* list.remove(x): drops the first element equal to x
ListRemove(list, x) ==
    LET i == CHOOSE k \in 1..Len(list) : list[k] = x /\ \A j \in 1..(k - 1) : list[j] # x
    IN SubSeq(list, 1, i - 1) \o SubSeq(list, i + 1, Len(list))

\* remove_frontier after its get_frontier; list.remove raises ValueError when
\* the element is no longer in the list, and the list is left as it was
ram_remove_frontier_write(existing_front) ==
    /\ ram_frontiers' = IF existing_front # 0
                           /\ \E k \in 1..Len(ram_frontiers) : ram_frontiers[k] = existing_front
                        THEN ListRemove(ram_frontiers, existing_front)
                        ELSE ram_frontiers
    /\ UNCHANGED heap

\* remove_frontier run without another thread in between
ram_remove_frontier(frontier, peer) ==
    ram_remove_frontier_write(ram_get_frontier(frontier.account))

ram_count_frontiers == Len(ram_frontiers)

\* copy.copy(list): a new list of the same object references
ram_get_all == [i \in 1..Len(ram_frontiers) |-> ObjRef(ram_frontiers[i])]

----------------------------------------------------------------------------
(* store_in_lmdb *)

\* tx.put(key, value): overwrites
lmdb_add_frontier(frontier, peer) ==
    lmdb_kv' = [a \in (DOMAIN lmdb_kv) \cup {frontier.account} |->
                  IF a = frontier.account THEN frontier.frontier_hash ELSE lmdb_kv[a]]

\* tx.get(account) is None for a missing key
lmdb_get_frontier(account) ==
    frontier_entry(account, IF account \in DOMAIN lmdb_kv THEN lmdb_kv[account] ELSE NoHash)

\* the keys in the order of the cursor
RECURSIVE SortedKeys(_)
SortedKeys(S) ==
    IF S = {} THEN <<>>
    ELSE LET m == CHOOSE x \in S : \A y \in S \ {x} : BytesLess(x, y)
         IN <<m>> \o SortedKeys(S \ {m})

lmdb_get_all ==
    LET keys == SortedKeys(DOMAIN lmdb_kv)
    IN [i \in 1..Len(keys) |-> frontier_entry(keys[i], lmdb_kv[keys[i]])]

----------------------------------------------------------------------------
(* my_sql_db *)

\* one VALUES tuple of the batch: (peer_id, account_hash, frontier_hash)
SqlRow(peer, frontier) ==
    [peer_id |-> peer_id(peer),
     account_hash |-> hexlify(frontier.account),
     frontier_hash |-> hexlify(frontier.frontier_hash)]

\* INSERT ... ON DUPLICATE KEY UPDATE frontier_hash = VALUES(frontier_hash),
\* the primary key being (peer_id, account_hash); rows are applied in order
RECURSIVE Upsert(_, _)
Upsert(table, rows) ==
    IF rows = <<>> THEN table
    ELSE LET r == Head(rows)
             kept == {t \in table : ~(t.peer_id = r.peer_id /\ t.account_hash = r.account_hash)}
         IN Upsert(kept \cup {r}, Tail(rows))

\* __add_batch: the cache is cleared before the statement runs; the statement
\* fails as a whole when a row breaks the foreign key to Peers
add_batch(rows, peers_table) ==
    IF \A i \in 1..Len(rows) : rows[i].peer_id \in peers_table
    THEN Upsert(Frontiers, rows)
    ELSE Frontiers

\* an add_frontier that flushes as soon as the batch holds BATCH_SIZE rows
sql_add_frontier_FlushAtBatchSize(frontier, peer) ==
    LET seen == \E i \in 1..Len(peers_stored) : peers_stored[i] = peer
        peers_table == IF seen THEN Peers ELSE Peers \cup {peer_id(peer)}
        pending == Append(cache, SqlRow(peer, frontier))
    IN /\ peers_stored' = IF seen THEN peers_stored ELSE Append(peers_stored, peer)
       /\ Peers' = peers_table
       /\ IF Len(pending) >= BATCH_SIZE
          THEN /\ Frontiers' = add_batch(pending, peers_table)
               /\ cache' = <<>>
          ELSE /\ cache' = pending
               /\ UNCHANGED Frontiers

sql_add_frontier(frontier, peer) ==
    LET seen == \E i \in 1..Len(peers_stored) : peers_stored[i] = peer
        peers_table == IF seen THEN Peers ELSE Peers \cup {peer_id(peer)}
        pending == Append(cache, SqlRow(peer, frontier))
    IN /\ peers_stored' = IF seen THEN peers_stored ELSE Append(peers_stored, peer)
       /\ Peers' = peers_table
       /\ IF Len(pending) > BATCH_SIZE
          THEN /\ Frontiers' = add_batch(pending, peers_table)
               /\ cache' = <<>>
          ELSE /\ cache' = pending
               /\ UNCHANGED Frontiers

\* cursor.fetchone() after the SELECT: one of the matching rows, or None
sql_get_frontier_results(account) ==
    LET rows == {t \in Frontiers : t.account_hash = hexlify(account)}
    IN IF rows = {} THEN {NoneVal}
       ELSE {RowTuple(t.account_hash, t.frontier_hash) : t \in rows}

\* remove_peer_data(peer), then a DELETE whose WHERE names the literal '%s'
sql_remove_frontier(frontier, peer) ==
    /\ Frontiers' = {t \in Frontiers : t.peer_id # peer_id(peer)}
    /\ Peers' = Peers \ {peer_id(peer)}
    /\ UNCHANGED <<cache, peers_stored>>

sql_count_frontiers == Cardinality(Frontiers)

----------------------------------------------------------------------------
(* frontier_database: the interface, dispatched on the variant *)

add_frontier(frontier, peer) ==
    \/ /\ backend = "ram"
       /\ ram_add_frontier(frontier, peer)
       /\ UNCHANGED <<lmdb_kv, Frontiers, Peers, cache, peers_stored>>
    \/ /\ backend = "lmdb"
       /\ lmdb_add_frontier(frontier, peer)
       /\ UNCHANGED <<ram_frontiers, heap, Frontiers, Peers, cache, peers_stored>>
    \/ /\ backend = "sql"
       /\ sql_add_frontier(frontier, peer)
       /\ UNCHANGED <<ram_frontiers, heap, lmdb_kv>>

\* the outcomes remove_frontier can have, with its effect on the store
remove_frontier(frontier, peer, outcome) ==
    \/ /\ backend = "ram"
       /\ ram_remove_frontier(frontier, peer)
       /\ outcome = Returned(<<>>)
       /\ UNCHANGED <<lmdb_kv, Frontiers, Peers, cache, peers_stored>>
    \/ /\ backend = "lmdb"
       /\ outcome = Raised("NotImplementedError")
       /\ UNCHANGED storeVars
    \/ /\ backend = "sql"
       /\ sql_remove_frontier(frontier, peer)
       /\ outcome \in {Returned(<<>>), Raised("ProgrammingError")}
       /\ UNCHANGED <<ram_frontiers, heap, lmdb_kv>>

\* the outcomes get_frontier(account) can have
get_frontier(account) ==
    CASE backend = "ram" ->
           LET f == ram_get_frontier(account)
           IN {Returned(<<IF f = 0 THEN NoneVal ELSE ObjRef(f)>>)}
      [] backend = "lmdb" -> {Returned(<<lmdb_get_frontier(account)>>)}
      [] backend = "sql" -> {Returned(<<v>>) : v \in sql_get_frontier_results(account)}

\* a get_all whose relational variant returns an empty list
get_all_EmptyOnSql ==
    CASE backend = "ram" -> Returned(ram_get_all)
      [] backend = "lmdb" -> Returned(lmdb_get_all)
      [] backend = "sql" -> Returned(<<>>)

\* the outcome of get_all()
get_all ==
    CASE backend = "ram" -> Returned(ram_get_all)
      [] backend = "lmdb" -> Returned(lmdb_get_all)
      [] backend = "sql" -> Raised("NotImplementedError")

\* the outcome of count_frontiers(): a number, or the exception
count_frontiers ==
    CASE backend = "ram" -> [val |-> ram_count_frontiers, exc |-> ""]
      [] backend = "lmdb" -> [val |-> 0, exc |-> "NotImplementedError"]
      [] backend = "sql" -> [val |-> sql_count_frontiers, exc |-> ""]

\* what a reference or entry denotes now: its account and hash
Deref(v) ==
    IF v.kind = "object"
    THEN [account |-> heap[v.id].account, frontier_hash |-> heap[v.id].frontier_hash]
    ELSE [account |-> v.account, frontier_hash |-> v.frontier_hash]

----------------------------------------------------------------------------
(* The store after construction, and the history of the writes *)

EmptyStore ==
    /\ ram_frontiers = <<>>
    /\ heap = <<>>
    /\ lmdb_kv = <<>>
    /\ Frontiers = {}
    /\ Peers = {}
    /\ cache = <<>>
    /\ peers_stored = <<>>

NoCall == [op |-> "", account |-> <<>>, val |-> <<>>, n |-> 0, exc |-> ""]

\* no thread calls the backend, only the caller of the run
NoThreads ==
    /\ threads = <<>>
    /\ sizes = {}

NoHistory ==
    /\ written = [a \in Accounts |-> NoHash]
    /\ updated = [a \in Accounts |-> FALSE]

\* the history of the calls made for an account
NoteAdd(frontier) ==
    /\ written' = [written EXCEPT ![frontier.account] = frontier.frontier_hash]
    /\ updated' = [updated EXCEPT ![frontier.account] = (written[frontier.account] # NoHash)]

NoteRemove(frontier) ==
    /\ written' = [written EXCEPT ![frontier.account] = NoHash]
    /\ updated' = [updated EXCEPT ![frontier.account] = FALSE]

\* the in-memory backend allocates one object per appended entry
CanAllocate(account) ==
    backend = "ram" /\ ram_get_frontier(account) = 0 => Len(heap) < MaxObjs

----------------------------------------------------------------------------
(* Wire codec of the client protocol *)

MAGIC == 75
RequestLen == 33
CountLen == 8
TerminatorLen == 64

\* int.to_bytes(length, 'big')
RECURSIVE to_bytes(_, _)
to_bytes(n, length) ==
    IF length = 0 THEN <<>> ELSE Append(to_bytes(n \div 256, length - 1), n % 256)

\* int.from_bytes(bs, 'big')
RECURSIVE from_bytes(_)
from_bytes(bs) ==
    IF bs = <<>> THEN 0
    ELSE from_bytes(SubSeq(bs, 1, Len(bs) - 1)) * 256 + bs[Len(bs)]

client_packet_serialise(account) == <<MAGIC>> \o account

\* an is_all_zero that looks at the first byte only
is_all_zero_FirstByte(account) == account[1] = 0

\* client_packet.parse without its second assert
client_packet_parse_NoMagic(data) ==
    IF Len(data) # RequestLen THEN Raised("AssertionError")
    ELSE Returned(Tail(data))

\* client_packet.parse: the account, or the AssertionError of a failed assert
client_packet_parse(data) ==
    IF Len(data) # RequestLen THEN Raised("AssertionError")
    ELSE IF data[1] # MAGIC THEN Raised("AssertionError")
    ELSE Returned(Tail(data))

is_all_zero(account) == account = Rep(0, AccountLen)

server_packet_header_serialise(no_of_frontiers) ==
    <<MAGIC>> \o to_bytes(no_of_frontiers, CountLen)

\* f.serialise() for an element of server_packet.frontiers: a frontier_entry
\* gives account + frontier_hash; None and a row tuple have no such method
entry_serialise(f) ==
    IF f.kind \in {"None", "tuple"} THEN Raised("AttributeError")
    ELSE IF Deref(f).frontier_hash = NoHash THEN Raised("TypeError")
    ELSE Returned(Deref(f).account \o Deref(f).frontier_hash)

RECURSIVE serialise_frontiers(_)
serialise_frontiers(frontiers) ==
    IF frontiers = <<>> THEN Returned(<<>>)
    ELSE LET first == entry_serialise(Head(frontiers))
             rest == serialise_frontiers(Tail(frontiers))
         IN IF first.exc # "" THEN first
            ELSE IF rest.exc # "" THEN rest
            ELSE Returned(first.val \o rest.val)

\* server_packet.serialise without the closing 64 zero bytes
server_packet_serialise_NoTerminator(frontiers) ==
    LET body == serialise_frontiers(frontiers)
    IN IF body.exc # "" THEN body
       ELSE Returned(server_packet_header_serialise(Len(frontiers)) \o body.val)

\* server_packet(frontiers).serialise()
server_packet_serialise(frontiers) ==
    LET body == serialise_frontiers(frontiers)
    IN IF body.exc # "" THEN body
       ELSE Returned(server_packet_header_serialise(Len(frontiers)) \o body.val
                     \o Rep(0, TerminatorLen))

\* server_packet_header.parse: the count, or the exception
server_packet_header_parse(data) ==
    IF data = <<>> THEN Raised("IndexError")
    ELSE IF data[1] # MAGIC THEN Raised("AssertionError")
    ELSE Returned(from_bytes(SubSeq(data, 2, IF Len(data) < 9 THEN Len(data) ELSE 9)))

\* a server_packet.parse that takes the hash from the front of each record
server_packet_parse_HashFirst(no_of_frontiers, data) ==
    IF Len(data) # 64 * no_of_frontiers + 64 THEN Raised("AssertionError")
    ELSE Returned([i \in 1..no_of_frontiers |->
                     frontier_entry(SubSeq(data, 64 * (i - 1) + 33, 64 * i),
                                    SubSeq(data, 64 * (i - 1) + 1, 64 * (i - 1) + 32))])

\* a server_packet.parse that only asks for enough bytes
server_packet_parse_AtLeast(no_of_frontiers, data) ==
    IF Len(data) < 64 * no_of_frontiers + 64 THEN Raised("AssertionError")
    ELSE Returned([i \in 1..no_of_frontiers |->
                     frontier_entry(SubSeq(data, 64 * (i - 1) + 1, 64 * (i - 1) + 32),
                                    SubSeq(data, 64 * (i - 1) + 33, 64 * i))])

\* server_packet.parse(hdr, data): the frontiers of the packet, or the
\* AssertionError of the length check
server_packet_parse(no_of_frontiers, data) ==
    IF Len(data) # 64 * no_of_frontiers + 64 THEN Raised("AssertionError")
    ELSE Returned([i \in 1..no_of_frontiers |->
                     frontier_entry(SubSeq(data, 64 * (i - 1) + 1, 64 * (i - 1) + 32),
                                    SubSeq(data, 64 * (i - 1) + 33, 64 * i))])

\* no packet taken through the codec
NoCodec ==
    [kind |-> "", stage |-> "", account |-> <<>>, entries |-> <<>>, wire |-> <<>>,
     parsed |-> Raised(""), whole |-> Raised(""), count |-> Raised(""), zero |-> FALSE]

----------------------------------------------------------------------------
(* Query server: start_service and comm_thread *)

SemaphoreValue == 8

NewWorker == [pc |-> "recv", data |-> <<>>, frontiers |-> <<>>, out |-> <<>>, exc |-> ""]

Live == BagToSet(workers)

Replace(w, w2) == (workers (-) SetToBag({w})) (+) SetToBag({w2})

\* the server threads touch neither the store's contents nor the crawl loop
ServerFrame == UNCHANGED <<backend, env, storeVars, histVars, apiVars, crawlVars, blVars, codec, threadVars>>

ServerInit ==
    /\ sem = SemaphoreValue
    /\ accept_pc = "acquire"
    /\ workers = EmptyBag
    /\ last_exit = ""

\* an acquire that does not wait for a permit
Acquire_NoBlock ==
    /\ accept_pc = "acquire"
    /\ sem' = IF sem > 0 THEN sem - 1 ELSE 0
    /\ accept_pc' = "accept"
    /\ UNCHANGED <<workers, last_exit>>
    /\ ServerFrame

\* semaphore.acquire(): blocks while the value is 0
Acquire ==
    /\ accept_pc = "acquire"
    /\ sem > 0
    /\ sem' = sem - 1
    /\ accept_pc' = "accept"
    /\ UNCHANGED <<workers, last_exit>>
    /\ ServerFrame

\* s.accept() returns a connection and the handler thread is started
Accept ==
    /\ accept_pc = "accept"
    /\ BagCardinality(workers) < env.clients
    /\ workers' = workers (+) SetToBag({NewWorker})
    /\ accept_pc' = "acquire"
    /\ UNCHANGED <<sem, last_exit>>
    /\ ServerFrame

\* comm_thread from s.recv(33) to the lookup: the states the worker can be in next
AfterRecv(w, data) ==
    LET c_packet == client_packet_parse(data) IN
    IF c_packet.exc # ""
    THEN {[w EXCEPT !.pc = "finally", !.data = data, !.exc = c_packet.exc]}
    ELSE IF is_all_zero(c_packet.val)
    THEN {IF get_all.exc # ""
          THEN [w EXCEPT !.pc = "finally", !.data = data, !.exc = get_all.exc]
          ELSE [w EXCEPT !.pc = "send", !.data = data, !.frontiers = get_all.val]}
    ELSE {[w EXCEPT !.pc = "send", !.data = data, !.frontiers = r.val] :
             r \in get_frontier(c_packet.val)}

Recv ==
    \E w \in Live : \E data \in env.requests : \E w2 \in AfterRecv(w, data) :
        /\ w.pc = "recv"
        /\ workers' = Replace(w, w2)
        /\ UNCHANGED <<sem, accept_pc, last_exit>>
        /\ ServerFrame

\* s.recv(33) raises socket.timeout after 10 seconds without data
RecvTimeout ==
    \E w \in Live :
        /\ w.pc = "recv"
        /\ workers' = Replace(w, [w EXCEPT !.pc = "finally", !.exc = "socket.timeout"])
        /\ UNCHANGED <<sem, accept_pc, last_exit>>
        /\ ServerFrame

\* s_packet.serialise() and s.sendall(...); leaving the with block closes the socket
AfterSend(w) ==
    LET s_packet == server_packet_serialise(w.frontiers)
    IN [w EXCEPT !.pc = "finally", !.out = s_packet.val, !.exc = s_packet.exc]

Send ==
    \E w \in Live :
        /\ w.pc = "send"
        /\ workers' = Replace(w, AfterSend(w))
        /\ UNCHANGED <<sem, accept_pc, last_exit>>
        /\ ServerFrame

\* a handler that releases after comm_thread instead of in a finally clause
Release_OnlyOnReturn ==
    \E w \in Live :
        /\ w.pc = "finally"
        /\ sem' = IF w.exc = "" /\ sem < SemaphoreValue THEN sem + 1 ELSE sem
        /\ workers' = workers (-) SetToBag({w})
        /\ last_exit' = IF w.exc = "" THEN "returned" ELSE w.exc
        /\ UNCHANGED accept_pc
        /\ ServerFrame

\* incoming_connection_handler's finally: semaphore.release(), and the thread ends
Release ==
    \E w \in Live :
        /\ w.pc = "finally"
        /\ sem' = IF sem < SemaphoreValue THEN sem + 1 ELSE sem
        /\ workers' = workers (-) SetToBag({w})
        /\ last_exit' = IF w.exc = "" THEN "returned" ELSE w.exc
        /\ UNCHANGED accept_pc
        /\ ServerFrame

NextServer == Acquire \/ Accept \/ Recv \/ RecvTimeout \/ Send \/ Release

----------------------------------------------------------------------------
(* Blacklist manager *)

BlacklistTTL == 1800

\* blacklist_manager.get_entry: the index of the first entry of the item, or 0
get_entry(bl, item) ==
    IF \E i \in 1..Len(bl) : bl[i].item = item
    THEN CHOOSE i \in 1..Len(bl) : bl[i].item = item /\ \A j \in 1..(i - 1) : bl[j].item # item
    ELSE 0

\* a has_expired that already fires when the age equals the expiry time
has_expired_AtTTL(entry, ttl) == now - entry.time >= ttl

\* blacklist_entry.has_expired
has_expired(entry, ttl) == now - entry.time > ttl

\* blacklist_manager.remove_entry: list.remove of the entry at index e
remove_entry(bl, e) == SubSeq(bl, 1, e - 1) \o SubSeq(bl, e + 1, Len(bl))

\* blacklist_manager.is_blacklisted: the answer and the list it leaves behind
is_blacklisted(bl, item) ==
    LET e == get_entry(bl, item) IN
    IF e = 0 THEN [result |-> FALSE, blacklist |-> bl]
    ELSE IF expiry_time # <<>>
    THEN IF has_expired(bl[e], expiry_time[1])
         THEN [result |-> FALSE, blacklist |-> remove_entry(bl, e)]
         ELSE [result |-> TRUE, blacklist |-> bl]
    ELSE [result |-> TRUE, blacklist |-> bl]

\* isinstance(item, self.object_type), the object type being Peer
isinstance(item) == item \in PeerIds

\* an add_item that appends whether or not the item has an entry
add_item_Always(bl, item) ==
    IF ~isinstance(item) THEN [blacklist |-> bl, exc |-> "BlacklistItemTypeError"]
    ELSE [blacklist |-> Append(bl, [item |-> item, time |-> now]), exc |-> ""]

\* blacklist_manager.add_item: the list it leaves behind, or the exception
add_item(bl, item) ==
    IF ~isinstance(item) THEN [blacklist |-> bl, exc |-> "BlacklistItemTypeError"]
    ELSE IF get_entry(bl, item) = 0
    THEN [blacklist |-> Append(bl, [item |-> item, time |-> now]), exc |-> ""]
    ELSE [blacklist |-> bl, exc |-> ""]

\* blacklist_manager.remove_item
remove_item(bl, item) ==
    LET e == get_entry(bl, item) IN
    IF e # 0 THEN remove_entry(bl, e) ELSE bl

\* no call yet; a call records its name, its argument, the time it was made,
\* the index get_entry found (0 for None), what it returned and what it raised
NoBlCall == [op |-> "", item |-> "", at |-> 0, entry |-> 0, val |-> FALSE, exc |-> ""]

\* blacklist_manager.__init__(object_type, expiry_time)
blacklist_manager_init(ttl) ==
    /\ blacklist = <<>>
    /\ expiry_time = ttl
    /\ bl_ret = NoBlCall

----------------------------------------------------------------------------
(* Crawl loop: run, fetch_peers, merge_peers, single_pass *)

MinPeerScore == 1000
ScorePenalty == 200

\* the exceptions single_pass catches, and one it does not (an OSError of
\* connect, sendall or recv other than a refused connection or a timeout)
CaughtExceptions ==
    {"ConnectionRefusedError", "socket.timeout", "PyNanoCoinException", "FrontierServiceSlowPeer"}
OtherExceptions == {"ConnectionResetError"}
PullExceptions == CaughtExceptions \cup OtherExceptions

NoPull == [peer |-> "", n |-> 0]

\* the protocol's end-of-stream record, and frontier_entry.is_end_marker
EndMarker ==
    [kind |-> "end_marker", id |-> 0, account |-> ZeroAccount, frontier_hash |-> Rep(0, HashLen)]
is_end_marker(front) == front.kind = "end_marker"

\* what a peer can send after the request: up to n records, the end marker
\* anywhere among them, or missing
PeerStreams(n) ==
    LET sent == {frontier_entry(Account1, HashAA), frontier_entry(Account2, HashBB), EndMarker}
    IN UNION {[1..k -> sent] : k \in 1..n}

\* the state of a pull that starts: the peer's stream is either fixed when the
\* connection is made (an environment that gives the length of the streams) or
\* chosen record by record
NewPulls(p) ==
    IF "streams" \in DOMAIN env
    THEN {[peer |-> p, n |-> 0, stream |-> st, calls |-> <<>>] : st \in PeerStreams(env.streams)}
    ELSE {[peer |-> p, n |-> 0]}

\* frontier_request.read_frontier_response(s): the records the peer can send
\* next; none when it has sent its whole stream, and the read times out
read_frontier_response ==
    IF "stream" \in DOMAIN pull
    THEN IF pull.n < Len(pull.stream) THEN {pull.stream[pull.n + 1]} ELSE {}
    ELSE (IF pull.n < MaxStream THEN env.records ELSE {}) \cup {EndMarker}

\* the pull after add_frontier(front, peer) has returned
AfterAddFrontier(front) ==
    IF "calls" \in DOMAIN pull
    THEN [pull EXCEPT !.n = @ + 1,
                      !.calls = Append(@, [frontier |-> front, peer |-> pull.peer])]
    ELSE [pull EXCEPT !.n = @ + 1]

CrawlInit ==
    /\ peers = <<>>
    /\ blacklist_manager_init(<<BlacklistTTL>>)
    /\ now = 0
    /\ ready = FALSE
    /\ crawl_pc = "fetch_peers"
    /\ crawl_exc = ""
    /\ todo = {}
    /\ pull = NoPull
    /\ attempted = {}
    /\ failures = [p \in PeerIds |-> 0]
    /\ merged_score = [p \in PeerIds |-> 0]
    /\ merged_at = [p \in PeerIds |-> 0]

\* the crawl thread does not touch the server's threads
CrawlFrame == UNCHANGED <<backend, env, apiVars, serverVars, blVars, codec, threadVars>>

\* a filter that looks at the score only
FilterPeers_ScoreOnly(list) == SelectSeq(list, LAMBDA p : p.score >= MinPeerScore)

\* filter(lambda p: p.score >= 1000 and p.ip.is_ipv4(), peers)
FilterPeers(list) == SelectSeq(list, LAMBDA p : p.score >= MinPeerScore /\ p.is_ipv4)

\* a merge_peers that does not consult the blacklist
RECURSIVE merge_peers_NoBlacklist(_, _, _)
merge_peers_NoBlacklist(list, registry, bl) ==
    IF list = <<>> THEN [peers |-> registry, blacklist |-> bl]
    ELSE LET p == Head(list)
         IN IF p.id \notin DOMAIN registry
            THEN merge_peers_NoBlacklist(Tail(list),
                             [q \in (DOMAIN registry) \cup {p.id} |->
                                 IF q = p.id THEN p.score ELSE registry[q]],
                             bl)
            ELSE merge_peers_NoBlacklist(Tail(list), registry, bl)

\* merge_peers: the registry and the blacklist after the loop over the list
RECURSIVE merge_peers(_, _, _)
merge_peers(list, registry, bl) ==
    IF list = <<>> THEN [peers |-> registry, blacklist |-> bl]
    ELSE LET p == Head(list)
             b == is_blacklisted(bl, p.id)
         IN IF ~b.result /\ p.id \notin DOMAIN registry
            THEN merge_peers(Tail(list),
                             [q \in (DOMAIN registry) \cup {p.id} |->
                                 IF q = p.id THEN p.score ELSE registry[q]],
                             b.blacklist)
            ELSE merge_peers(Tail(list), registry, b.blacklist)

\* run: fetch_peers(), whose assert ends the thread when no peer passes the filter
FetchPeers ==
    \E list \in env.peer_lists :
        LET filtered == FilterPeers(list)
            merged == merge_peers(filtered, peers, blacklist)
        IN /\ crawl_pc = "fetch_peers"
           /\ IF filtered = <<>>
              THEN /\ crawl_pc' = "dead"
                   /\ crawl_exc' = "AssertionError"
                   /\ UNCHANGED <<peers, blacklist, todo, attempted, merged_score, merged_at>>
              ELSE /\ peers' = merged.peers
                   /\ blacklist' = merged.blacklist
                   /\ merged_score' = [p \in PeerIds |->
                         IF p \in DOMAIN merged.peers /\ p \notin DOMAIN peers
                         THEN merged.peers[p] ELSE merged_score[p]]
                   /\ merged_at' = [p \in PeerIds |->
                         IF p \in DOMAIN merged.peers /\ p \notin DOMAIN peers
                         THEN now ELSE merged_at[p]]
                   /\ crawl_pc' = "single_pass"
                   /\ todo' = DOMAIN merged.peers
                   /\ attempted' = {}
                   /\ UNCHANGED crawl_exc
           /\ UNCHANGED <<now, ready, pull, failures, storeVars, histVars>>
           /\ CrawlFrame

\* Peer.deduct_score(200)
deduct_score(registry, p, amount) == [registry EXCEPT ![p] = @ - amount]

\* an exception leaves manage_peer_frontiers(p): single_pass catches it and
\* deducts the score, or it propagates out of single_pass and run
PullRaises(p, e) ==
    /\ failures[p] < MaxFailures
    /\ failures' = [failures EXCEPT ![p] = @ + 1]
    /\ pull' = NoPull
    /\ IF e \in CaughtExceptions
       THEN /\ peers' = deduct_score(peers, p, ScorePenalty)
            /\ crawl_pc' = "single_pass"
            /\ UNCHANGED crawl_exc
       ELSE /\ crawl_pc' = "dead"
            /\ crawl_exc' = e
            /\ UNCHANGED peers

\* single_pass takes the next peer of the set; s.connect succeeds and the request is sent
PullConnect ==
    \E p \in todo : \E started \in NewPulls(p) :
        /\ crawl_pc = "single_pass"
        /\ todo' = todo \ {p}
        /\ attempted' = attempted \cup {p}
        /\ crawl_pc' = "pull"
        /\ pull' = started
        /\ UNCHANGED <<peers, blacklist, now, ready, crawl_exc, failures, merged_score, merged_at,
                       storeVars, histVars>>
        /\ CrawlFrame

\* single_pass takes the next peer of the set; connect or sendall raises
PullConnectFails ==
    \E p \in todo : \E e \in PullExceptions :
        /\ crawl_pc = "single_pass"
        /\ todo' = todo \ {p}
        /\ attempted' = attempted \cup {p}
        /\ PullRaises(p, e)
        /\ UNCHANGED <<blacklist, now, ready, merged_score, merged_at, storeVars, histVars>>
        /\ CrawlFrame

\* an add_fronts_from_iter that hands every record read to add_frontier
PullRecord_PastMarker ==
    \E front \in read_frontier_response :
        /\ crawl_pc = "pull"
        /\ add_frontier(front, pull.peer)
        /\ pull' = AfterAddFrontier(front)
        /\ UNCHANGED <<peers, blacklist, now, ready, crawl_pc, crawl_exc, todo, attempted,
                       failures, merged_score, merged_at, histVars>>
        /\ CrawlFrame

\* add_fronts_from_iter: next(front_iter) yields a record, handed to add_frontier
PullRecord ==
    \E front \in read_frontier_response :
        /\ crawl_pc = "pull"
        /\ ~is_end_marker(front)
        /\ add_frontier(front, pull.peer)
        /\ pull' = AfterAddFrontier(front)
        /\ UNCHANGED <<peers, blacklist, now, ready, crawl_pc, crawl_exc, todo, attempted,
                       failures, merged_score, merged_at, histVars>>
        /\ CrawlFrame

\* frontier_read_iter reads the end marker: StopIteration, the pull is over
PullEnd ==
    \E front \in read_frontier_response :
        /\ crawl_pc = "pull"
        /\ is_end_marker(front)
        /\ crawl_pc' = "single_pass"
        /\ pull' = NoPull
        /\ UNCHANGED <<peers, blacklist, now, ready, crawl_exc, todo, attempted, failures,
                       merged_score, merged_at, storeVars, histVars>>
        /\ CrawlFrame

\* read_frontier_response raises in the middle of the stream
PullFails ==
    \E e \in PullExceptions :
        /\ crawl_pc = "pull"
        /\ PullRaises(pull.peer, e)
        /\ UNCHANGED <<blacklist, now, ready, todo, attempted, merged_score, merged_at,
                       storeVars, histVars>>
        /\ CrawlFrame

\* a run that flips the flag after every pass instead of setting it once
PassDone_Toggle ==
    /\ crawl_pc = "single_pass"
    /\ todo = {}
    /\ ready' = ~ready
    /\ crawl_pc' = "fetch_peers"
    /\ UNCHANGED <<peers, blacklist, now, crawl_exc, todo, pull, attempted, failures,
                   merged_score, merged_at, storeVars, histVars>>
    /\ CrawlFrame

\* the for loop of single_pass is exhausted; run sets ready and starts over
PassDone ==
    /\ crawl_pc = "single_pass"
    /\ todo = {}
    /\ ready' = TRUE
    /\ crawl_pc' = "fetch_peers"
    /\ UNCHANGED <<peers, blacklist, now, crawl_exc, todo, pull, attempted, failures,
                   merged_score, merged_at, storeVars, histVars>>
    /\ CrawlFrame

NextCrawl ==
    FetchPeers \/ PullConnect \/ PullConnectFails \/ PullRecord \/ PullEnd \/ PullFails
    \/ PassDone

----------------------------------------------------------------------------
(* The storage interface called directly, one call at a time *)

StoreAdd ==
    \E a \in Accounts, h \in Hashes, p \in PeerIds :
        /\ ncalls < MaxCalls
        /\ ncalls' = ncalls + 1
        /\ CanAllocate(a)
        /\ add_frontier(frontier_entry(a, h), p)
        /\ NoteAdd(frontier_entry(a, h))
        /\ ret' = NoCall
        /\ UNCHANGED <<backend, env, snapshot, serverVars, crawlVars, blVars, codec, threadVars>>

StoreRemove ==
    \E a \in Accounts, p \in PeerIds, outcome \in {Returned(<<>>), Raised("NotImplementedError"), Raised("ProgrammingError")} :
        /\ ncalls < MaxCalls
        /\ ncalls' = ncalls + 1
        /\ remove_frontier(frontier_entry(a, HashAA), p, outcome)
        /\ NoteRemove(frontier_entry(a, HashAA))
        /\ ret' = [NoCall EXCEPT !.op = "remove_frontier", !.account = a, !.exc = outcome.exc]
        /\ UNCHANGED <<backend, env, snapshot, serverVars, crawlVars, blVars, codec, threadVars>>

StoreGet ==
    \E a \in Accounts : \E r \in get_frontier(a) :
        /\ ret' = [NoCall EXCEPT !.op = "get_frontier", !.account = a, !.val = r.val, !.exc = r.exc]
        /\ UNCHANGED <<backend, env, storeVars, histVars, snapshot, ncalls, serverVars, crawlVars, blVars, codec, threadVars>>

StoreGetAll ==
    /\ ret' = [NoCall EXCEPT !.op = "get_all", !.val = get_all.val, !.exc = get_all.exc]
    /\ snapshot' = get_all
    /\ UNCHANGED <<backend, env, storeVars, histVars, ncalls, serverVars, crawlVars, blVars, codec, threadVars>>

StoreCount ==
    /\ ret' = [NoCall EXCEPT !.op = "count_frontiers", !.n = count_frontiers.val,
                             !.exc = count_frontiers.exc]
    /\ UNCHANGED <<backend, env, storeVars, histVars, snapshot, ncalls, serverVars, crawlVars, blVars, codec, threadVars>>

NoEnv == [clients |-> 0, requests |-> {}, peer_lists |-> {}, records |-> {}]

InitStore ==
    /\ backend \in {"ram", "lmdb", "sql"}
    /\ EmptyStore
    /\ NoHistory
    /\ ret = NoCall
    /\ snapshot = Raised("")
    /\ ncalls = 0
    /\ env = NoEnv
    /\ codec = NoCodec
    /\ NoThreads
    /\ ServerInit
    /\ CrawlInit

NextStore == StoreAdd \/ StoreRemove \/ StoreGet \/ StoreGetAll \/ StoreCount

SpecStore == InitStore /\ [][NextStore]_vars

----------------------------------------------------------------------------
(* Properties of the storage interface *)

\* how many records the backend holds for an account
RecordsOf(a) ==
    CASE backend = "ram" ->
           Cardinality({i \in 1..Len(ram_frontiers) : heap[ram_frontiers[i]].account = a})
      [] backend = "lmdb" -> IF a \in DOMAIN lmdb_kv THEN 1 ELSE 0
      [] backend = "sql" -> Cardinality({t \in Frontiers : t.account_hash = hexlify(a)})

\* the value is a frontier entry of account a with hash h
IsEntry(v, a, h) ==
    /\ v.kind \in {"object", "frontier_entry"}
    /\ Deref(v) = [account |-> a, frontier_hash |-> h]

\* C1: on every backend variant, after add_frontier(entry(A,H1)) and then
\* add_frontier(entry(A,H2)), get_frontier(A) returns the entry with hash H2,
\* and the backend holds no second entry for A.
C1_LastWriteWins ==
    /\ \A a \in Accounts : updated[a] => RecordsOf(a) <= 1
    /\ (ret.op = "get_frontier" /\ updated[ret.account]) =>
          /\ ret.exc = ""
          /\ Len(ret.val) = 1
          /\ IsEntry(ret.val[1], ret.account, written[ret.account])

\* C2: after any sequence of add_frontier and remove_frontier calls,
\* count_frontiers() is the number of distinct accounts added and not
\* removed since.
C2_CountIsDistinctAccounts ==
    ret.op = "count_frontiers" =>
        /\ ret.exc = ""
        /\ ret.n = Cardinality({a \in Accounts : written[a] # NoHash})

----------------------------------------------------------------------------
(* The environments of the runs *)

ZeroRequest == client_packet_serialise(ZeroAccount)
Request(account) == client_packet_serialise(account)
\* 33 bytes whose first byte is not the magic
BadMagicRequest == <<MAGIC - 1>> \o Account1
\* what recv(33) returns when fewer than 33 bytes have arrived
ShortRequest == SubSeq(Request(Account1), 1, RequestLen - 1)

PeerDesc(id, sc, v4) == [id |-> id, score |-> sc, is_ipv4 |-> v4]

AllRecords == {frontier_entry(a, h) : a \in Accounts, h \in Hashes}

\* the whole service: start_service with its crawl thread, few clients
ServiceEnv ==
    [clients |-> MaxClients,
     requests |-> {ZeroRequest, Request(Account1), BadMagicRequest, ShortRequest},
     peer_lists |-> {<<PeerDesc("p1", MinPeerScore, TRUE)>>},
     records |-> {frontier_entry(Account1, HashAA), frontier_entry(Account1, HashBB),
                  frontier_entry(Account2, HashAA)}]

\* the crawl loop alone (main without --forever runs it without the server)
CrawlEnv ==
    [clients |-> 0,
     requests |-> {},
     peer_lists |-> {<<PeerDesc("p1", MinPeerScore, TRUE), PeerDesc("p2", MinPeerScore + ScorePenalty, TRUE)>>,
                     <<PeerDesc("p2", MinPeerScore + ScorePenalty, FALSE), PeerDesc("p1", MinPeerScore, TRUE)>>,
                     <<PeerDesc("p2", MinPeerScore - 1, TRUE)>>},
     records |-> {frontier_entry(Account1, HashAA), frontier_entry(Account1, HashBB),
                  frontier_entry(Account2, HashAA)}]

\* the accept loop and its workers with more clients than permits
LimiterEnv ==
    [clients |-> MaxLimiterClients,
     requests |-> {ZeroRequest, BadMagicRequest},
     peer_lists |-> {},
     records |-> {}]

InitWith(e) ==
    /\ backend \in {"ram", "lmdb", "sql"}
    /\ EmptyStore
    /\ NoHistory
    /\ ret = NoCall
    /\ snapshot = Raised("")
    /\ ncalls = 0
    /\ env = e
    /\ codec = NoCodec
    /\ NoThreads
    /\ ServerInit
    /\ CrawlInit

Init == InitWith(ServiceEnv)
Next == NextCrawl \/ NextServer
Spec == Init /\ [][Next]_vars

InitCrawl == InitWith(CrawlEnv)
SpecCrawl == InitCrawl /\ [][NextCrawl]_vars

InitLimiter == InitWith(LimiterEnv)
SpecLimiter == InitLimiter /\ [][NextServer]_vars

----------------------------------------------------------------------------
(* Properties of the query server *)

\* the 8-byte big-endian count of a header, for a count below 256
CountField(n) == <<0, 0, 0, 0, 0, 0, 0, n>>

\* a response: the header with count Len(records), the 64-byte records, the terminator
ResponseOf(records) ==
    LET n == Len(records) IN
    [i \in 1..(9 + 64 * n + 64) |->
        IF i = 1 THEN 75
        ELSE IF i <= 9 THEN CountField(n)[i - 1]
        ELSE IF i > 9 + 64 * n THEN 0
        ELSE LET k == ((i - 10) \div 64) + 1
                 j == ((i - 10) % 64) + 1
             IN IF j <= 32 THEN records[k].account[j] ELSE records[k].frontier_hash[j - 32]]

\* a step of one worker, from state w to state w2
WorkerStep(w, w2) == w # w2 /\ workers' = Replace(w, w2)

\* the request bytes are not a well-formed client packet
Malformed(data) == Len(data) # 33 \/ data[1] # 75

\* the lookup of a single account came back without a frontier
Missing(frontiers) ==
    /\ Len(frontiers) = 1
    /\ \/ frontiers[1].kind = "None"
       \/ frontiers[1].kind = "frontier_entry" /\ frontiers[1].frontier_hash = NoHash

\* C3: a request for an account that is not stored is answered with an empty
\* result set: the header with count 0 and the 64-byte terminator.
C3_UnknownAccountEmptyResult ==
    \A w \in Live :
        (w.pc = "finally" /\ ~Malformed(w.data) /\ w.data # ZeroRequest /\ Missing(w.frontiers))
            => (w.exc = "" /\ w.out = ResponseOf(<<>>))

\* C4: at most 8 connection workers are live at any time, and the accept loop
\* waits in accept only while it holds a permit of its own.
C4_AtMostEightWorkers ==
    BagCardinality(workers) + (IF accept_pc = "accept" THEN 1 ELSE 0) <= 8

\* eight workers are live, a ninth client is waiting, and the accept loop is blocked
C4_Witness ==
    /\ BagCardinality(workers) = 8
    /\ env.clients > 8
    /\ accept_pc = "acquire"
    /\ sem = 0

\* C5: every permit taken for a connection is given back exactly once when its
\* worker finishes, by return or by exception: the permits in the semaphore,
\* those of the live workers and the one the accept loop holds are always 8,
\* so with no worker left all of them are available again.
C5_PermitsNeverLeak ==
    /\ sem \in 0..8
    /\ sem + BagCardinality(workers) + (IF accept_pc = "accept" THEN 1 ELSE 0) = 8
    /\ (workers = EmptyBag /\ accept_pc = "acquire") => sem = 8

\* a worker left by an exception and all 8 permits are back
C5_Witness ==
    /\ last_exit \notin {"", "returned"}
    /\ workers = EmptyBag
    /\ accept_pc = "acquire"
    /\ sem = 8

\* what the backend holds, in its iteration order, is what the list says
HoldsInOrder(frontiers) ==
    CASE backend = "ram" ->
           /\ Len(frontiers) = Len(ram_frontiers)
           /\ \A i \in 1..Len(frontiers) :
                 frontiers[i].kind = "object" /\ frontiers[i].id = ram_frontiers[i]
      [] backend = "lmdb" ->
           /\ Len(frontiers) = Cardinality(DOMAIN lmdb_kv)
           /\ \A i \in 1..Len(frontiers) :
                 /\ frontiers[i].kind = "frontier_entry"
                 /\ frontiers[i].account \in DOMAIN lmdb_kv
                 /\ frontiers[i].frontier_hash = lmdb_kv[frontiers[i].account]
           /\ \A i, j \in 1..Len(frontiers) :
                 i < j => BytesLess(frontiers[i].account, frontiers[j].account)
      [] backend = "sql" -> FALSE

\* the lookup step of a full dump reads all N frontiers of the backend in order
FullDumpLookup(w, w2) ==
    (w.pc = "recv" /\ w2.pc # "recv" /\ w2.data = ZeroRequest)
        => (w2.pc = "send" /\ HoldsInOrder(w2.frontiers))

\* the send step of a full dump writes header, N records and terminator
FullDumpSend(w, w2) ==
    (w.pc = "send" /\ w.data = ZeroRequest)
        => /\ w2.pc = "finally" /\ w2.exc = ""
           /\ Len(w2.out) = 9 + 64 * Len(w.frontiers) + 64
           /\ w2.out = ResponseOf([i \in 1..Len(w.frontiers) |-> Deref(w.frontiers[i])])

\* C6 as stated: whatever the backend, a request with the all-zero account is
\* answered with the count N, the N records in iteration order and the terminator.
C6_FullDumpAnyBackend ==
    [][\A w \in Live : \A w2 \in BagToSet(workers') :
          WorkerStep(w, w2) => (FullDumpLookup(w, w2) /\ FullDumpSend(w, w2))]_vars

\* C6, amended: on the in-memory and the LMDB backend a request with the
\* all-zero account is answered with a 9-byte header of count N, the N 64-byte
\* records in the backend's iteration order and the 64-byte terminator; on the
\* relational backend get_all raises NotImplementedError and nothing is sent.
C6_FullDump ==
    [][\A w \in Live : \A w2 \in BagToSet(workers') :
          WorkerStep(w, w2) =>
             /\ backend # "sql" => (FullDumpLookup(w, w2) /\ FullDumpSend(w, w2))
             /\ (backend = "sql" /\ w.pc = "recv" /\ w2.pc # "recv" /\ w2.data = ZeroRequest)
                   => (w2.pc = "finally" /\ w2.exc = "NotImplementedError" /\ w2.out = <<>>)]_vars

\* a full dump of two frontiers has been sent: 9 + 64 * 2 + 64 bytes
C6_Witness ==
    \E w \in Live :
        /\ w.pc = "finally" /\ w.data = ZeroRequest /\ w.exc = ""
        /\ Len(w.frontiers) = 2
        /\ Len(w.out) = 201

\* the hashes the backend holds for an account (flushed or pending)
unhexlify(hex) == [i \in 1..(Len(hex) \div 2) |-> 16 * hex[2 * i - 1] + hex[2 * i]]

StoredHashes(a) ==
    CASE backend = "ram" ->
           {heap[ram_frontiers[i]].frontier_hash :
               i \in {k \in 1..Len(ram_frontiers) : heap[ram_frontiers[k]].account = a}}
      [] backend = "lmdb" -> IF a \in DOMAIN lmdb_kv THEN {lmdb_kv[a]} ELSE {}
      [] backend = "sql" ->
           {unhexlify(t.frontier_hash) :
               t \in {r \in Frontiers \cup {cache[i] : i \in 1..Len(cache)} :
                         r.account_hash = hexlify(a)}}

\* C7: a request for exactly a stored account A is answered with count 1, the
\* one 64-byte record A followed by its hash H, and the terminator.
C7_SingleAccount ==
    [][\A w \in Live : \A w2 \in BagToSet(workers') :
          WorkerStep(w, w2) =>
             /\ (w.pc = "recv" /\ w2.pc # "recv" /\ ~Malformed(w2.data)
                    /\ StoredHashes(Tail(w2.data)) # {})
                  => /\ w2.pc = "send"
                     /\ Len(w2.frontiers) = 1
                     /\ \E h \in StoredHashes(Tail(w2.data)) :
                           IsEntry(w2.frontiers[1], Tail(w2.data), h)
             /\ (w.pc = "send" /\ w.data # ZeroRequest /\ ~Missing(w.frontiers))
                  => /\ w2.exc = ""
                     /\ w2.out = ResponseOf(<<[account |-> Tail(w.data),
                                               frontier_hash |-> Deref(w.frontiers[1]).frontier_hash]>>)]_vars

\* C8: a malformed request (wrong magic, or not 33 bytes) ends its worker with
\* an AssertionError and no byte sent, and once that worker is gone the accept
\* loop is not blocked: it holds a permit or can take one.
C8_MalformedRejected ==
    /\ \A w \in Live :
          (w.pc # "recv" /\ w.exc # "socket.timeout" /\ Malformed(w.data))
              => (w.pc = "finally" /\ w.out = <<>> /\ w.exc = "AssertionError")
    /\ last_exit = "AssertionError" => (accept_pc = "accept" \/ sem > 0)

\* after a malformed request was rejected, a later connection got its response
\* while the crawl thread is still running
C8_Witness ==
    /\ last_exit = "AssertionError"
    /\ crawl_pc # "dead"
    /\ \E w \in Live : w.pc = "finally" /\ w.exc = "" /\ Len(w.out) > 73

----------------------------------------------------------------------------
(* Properties of the crawl loop *)

\* C9: no exception raised by a per-peer pull aborts the pass: the crawl thread
\* is never ended by one, and a pass that is over has attempted every peer of
\* the registry.
C9_NoPullAbortsPass ==
    /\ crawl_exc \notin PullExceptions
    /\ (crawl_pc = "fetch_peers" /\ ready) => attempted = DOMAIN peers

\* C10: after k failed pulls a peer is still in the registry and its score is
\* lower by exactly 200 * k than when it was merged.
C10_ScoreNeverEvicts ==
    \A p \in PeerIds :
        failures[p] > 0 =>
            /\ p \in DOMAIN peers
            /\ peers[p] = merged_score[p] - 200 * failures[p]

----------------------------------------------------------------------------
(* The blacklist_manager called directly, one call at a time *)

\* How far the clock runs.
MaxTime == 2700

\* what add_item can be handed: the peers, and an object that is not a Peer
Items == PeerIds \cup {"not_a_peer"}

\* how far time.time() moves at once: half the expiry time of the service, so
\* that entries are seen younger than it, exactly as old, and older
TickSteps == {BlacklistTTL \div 2}

BlacklistFrame ==
    UNCHANGED <<backend, env, storeVars, histVars, apiVars, serverVars, peers, ready,
                crawl_pc, crawl_exc, todo, pull, attempted, failures, merged_score, merged_at,
                expiry_time, codec, threadVars>>

BlCall(op, item) ==
    [NoBlCall EXCEPT !.op = op, !.item = item, !.at = now, !.entry = get_entry(blacklist, item)]

CallAddItem ==
    \E item \in Items :
        LET r == add_item(blacklist, item) IN
        /\ blacklist' = r.blacklist
        /\ bl_ret' = [BlCall("add_item", item) EXCEPT !.exc = r.exc]
        /\ UNCHANGED now
        /\ BlacklistFrame

CallRemoveItem ==
    \E item \in Items :
        /\ blacklist' = remove_item(blacklist, item)
        /\ bl_ret' = BlCall("remove_item", item)
        /\ UNCHANGED now
        /\ BlacklistFrame

CallIsBlacklisted ==
    \E item \in Items :
        LET r == is_blacklisted(blacklist, item) IN
        /\ blacklist' = r.blacklist
        /\ bl_ret' = [BlCall("is_blacklisted", item) EXCEPT !.val = r.result]
        /\ UNCHANGED now
        /\ BlacklistFrame

\* time.time() advances; the clock is read by add_item and by the is_blacklisted
\* of merge_peers only, so it is moved between two passes of run
Tick ==
    \E d \in TickSteps :
        /\ crawl_pc = "fetch_peers"
        /\ now + d <= MaxTime
        /\ now' = now + d
        /\ UNCHANGED <<blacklist, bl_ret>>
        /\ BlacklistFrame

\* a blacklist_manager of Peer with or without an expiry time, nothing else running
InitBlacklist ==
    /\ backend \in {"ram", "lmdb", "sql"}
    /\ EmptyStore
    /\ NoHistory
    /\ ret = NoCall
    /\ snapshot = Raised("")
    /\ ncalls = 0
    /\ env = NoEnv
    /\ codec = NoCodec
    /\ NoThreads
    /\ ServerInit
    /\ blacklist_manager_init(<<>>) \/ blacklist_manager_init(<<BlacklistTTL>>)
    /\ peers = <<>>
    /\ now = 0
    /\ ready = FALSE
    /\ crawl_pc = "fetch_peers"
    /\ crawl_exc = ""
    /\ todo = {}
    /\ pull = NoPull
    /\ attempted = {}
    /\ failures = [p \in PeerIds |-> 0]
    /\ merged_score = [p \in PeerIds |-> 0]
    /\ merged_at = [p \in PeerIds |-> 0]

NextBlacklist == CallAddItem \/ CallRemoveItem \/ CallIsBlacklisted \/ Tick

SpecBlacklist == InitBlacklist /\ [][NextBlacklist]_vars

----------------------------------------------------------------------------
(* Properties of the blacklist manager *)

EntriesOf(bl) == {bl[i] : i \in 1..Len(bl)}

\* C13: is_blacklisted(item) returns false when the item has no entry; when it
\* has one, a TTL is configured and now - inserted_at > TTL, the entry is removed
\* and the answer is false; when it has one and no TTL is configured or the
\* entry has not expired, the answer is true and the blacklist is unchanged.
C13_IsBlacklisted ==
    [][(bl_ret'.op = "is_blacklisted" /\ now' = now) =>
          LET item == bl_ret'.item
              present == \E i \in 1..Len(blacklist) : blacklist[i].item = item
              entry == CHOOSE i \in 1..Len(blacklist) : blacklist[i].item = item
          IN IF ~present THEN bl_ret'.val = FALSE
             ELSE IF expiry_time # <<>> /\ now - blacklist[entry].time > expiry_time[1]
             THEN /\ bl_ret'.val = FALSE
                  /\ EntriesOf(blacklist') = EntriesOf(blacklist) \ {blacklist[entry]}
                  /\ Len(blacklist') = Len(blacklist) - 1
             ELSE /\ bl_ret'.val = TRUE
                  /\ blacklist' = blacklist]_vars

\* an expired entry was looked up and removed, and an entry aged exactly the TTL
\* is still in force
C13_Witness ==
    /\ bl_ret.op = "is_blacklisted"
    /\ bl_ret.entry # 0
    /\ bl_ret.val = FALSE
    /\ \E i \in 1..Len(blacklist) : now - blacklist[i].time = BlacklistTTL

\* C14: the blacklist holds at most one entry per identity, and add_item of an
\* identity that already has an entry leaves the blacklist unchanged, the
\* entry's insertion time included.
C14_AddItemIdempotent ==
    /\ [](\A i, j \in 1..Len(blacklist) : blacklist[i].item = blacklist[j].item => i = j)
    /\ [][(bl_ret'.op = "add_item" /\ now' = now
            /\ \E i \in 1..Len(blacklist) : blacklist[i].item = bl_ret'.item)
           => blacklist' = blacklist]_vars

\* an identity was added again after time had passed since its first add_item
C14_Witness ==
    /\ bl_ret.op = "add_item"
    /\ bl_ret.entry # 0
    /\ bl_ret.exc = ""
    /\ blacklist[bl_ret.entry].time < bl_ret.at
    /\ Len(blacklist) = 2

----------------------------------------------------------------------------
(* The crawl loop while peers are pushed into the service's blacklist *)

\* the crawl loop with a peer source that offers both peers in every list
ExclusionEnv ==
    [clients |-> 0,
     requests |-> {},
     peer_lists |-> {<<PeerDesc("p1", MinPeerScore, TRUE), PeerDesc("p2", MinPeerScore, TRUE)>>,
                     <<PeerDesc("p2", MinPeerScore, TRUE), PeerDesc("p1", MinPeerScore, TRUE)>>},
     records |-> {frontier_entry(Account1, HashAA)}]

InitExclusion == InitWith(ExclusionEnv)

\* whoever decides on exclusions calls service.blacklist.add_item(peer)
PushToBlacklist ==
    \E p \in PeerIds :
        /\ blacklist' = add_item(blacklist, p).blacklist
        /\ UNCHANGED <<now, bl_ret>>
        /\ BlacklistFrame

NextExclusion == NextCrawl \/ PushToBlacklist \/ Tick

SpecExclusion == InitExclusion /\ [][NextExclusion]_vars

\* the peer has a blacklist entry
HasEntry(p) == \E i \in 1..Len(blacklist) : blacklist[i].item = p
\* the seconds passed since the peer was blacklisted
Age(p) == now - blacklist[CHOOSE i \in 1..Len(blacklist) : blacklist[i].item = p].time
\* every list the peer source can return offers the peer to merge_peers
Offered(p) ==
    \A list \in env.peer_lists :
        \E i \in 1..Len(FilterPeers(list)) : FilterPeers(list)[i].id = p
\* a step of run that is a fetch_peers with its merge_peers
MergeStep == crawl_pc = "fetch_peers" /\ crawl_pc' = "single_pass"

\* C11: a merge step does not add an untracked blacklisted peer while fewer
\* than 1800 seconds have passed since it was blacklisted; once more than 1800
\* seconds have passed, a merge step that offers the peer adds it to the
\* registry and its blacklist entry is gone.
C11_BlacklistedExcludedUntilTTL ==
    [][MergeStep =>
         \A p \in PeerIds :
            (p \notin DOMAIN peers /\ HasEntry(p)) =>
                /\ Age(p) < BlacklistTTL => p \notin DOMAIN peers'
                /\ (Age(p) > BlacklistTTL /\ Offered(p)) =>
                      /\ p \in DOMAIN peers'
                      /\ \A i \in 1..Len(blacklist') : blacklist'[i].item # p]_vars

\* one peer was merged at a later merge step than the other although both are
\* offered every time: it was blacklisted at the earlier ones, and its entry
\* is gone now
C11_Witness ==
    \E p, q \in DOMAIN peers :
        /\ merged_at[q] < merged_at[p]
        /\ merged_at[p] > BlacklistTTL
        /\ ~HasEntry(p)

\* C12: no pull is started from a peer that has a blacklist entry whose TTL
\* has not elapsed, whether or not the peer was in the registry when it was
\* blacklisted.
C12_NoPullWhileBlacklisted ==
    [][\A p \in PeerIds :
          (p \in attempted' /\ p \notin attempted /\ crawl_pc = "single_pass")
              => ~(HasEntry(p) /\ Age(p) <= BlacklistTTL)]_vars

----------------------------------------------------------------------------
(* Properties of the readiness flag *)

\* a step of run in which single_pass returns
PassCompletes == crawl_pc = "single_pass" /\ crawl_pc' = "fetch_peers"

\* C15: ready is false at construction, becomes true exactly when a crawl pass
\* completes, never returns to false, and so stays false when no pass
\* ever completes.
C15_ReadyAfterFirstPass ==
    /\ ~ready
    /\ [][/\ ready => ready'
          /\ (~ready /\ ready') => PassCompletes
          /\ PassCompletes => ready']_vars

\* a later pass is pulling from a peer with the flag set by an earlier pass
C15_Witness ==
    /\ ready
    /\ crawl_pc = "pull"

----------------------------------------------------------------------------
(* Properties of the storage interface: snapshots and removal *)

\* the (account, hash) pairs the caller of the last get_all() reads from the
\* list it was given
SnapshotPairs ==
    IF snapshot.exc # "" THEN <<>>
    ELSE [i \in 1..Len(snapshot.val) |-> Deref(snapshot.val[i])]

\* C16: the pairs of a get_all() result do not change through an add_frontier
\* or remove_frontier made after the call, an add_frontier that updates the
\* hash of an account of the snapshot included.
C16_SnapshotIsolated ==
    [][ret'.op # "get_all" => SnapshotPairs' = SnapshotPairs]_vars

\* C17: remove_frontier(entry, source_peer) returns, leaves no record of the
\* entry's account and leaves the records of every other account unchanged,
\* on every backend variant.
C17_RemoveOnlyThatAccount ==
    [][\A a \in Accounts :
          (ret'.op = "remove_frontier" /\ ret'.account = a /\ ncalls' = ncalls + 1) =>
              /\ ret'.exc = ""
              /\ StoredHashes(a)' = {}
              /\ \A b \in Accounts \ {a} : StoredHashes(b)' = StoredHashes(b)]_vars

----------------------------------------------------------------------------
(* Properties of the relational backend behind the query server *)

\* C18: get_all on the relational backend raises NotImplementedError whatever
\* the tables hold, and a worker serving an all-zero request against it ends
\* with that exception and no byte sent, so never with a count-0 response.
C18_RelationalDumpNotImplemented ==
    backend = "sql" =>
        /\ get_all = Raised("NotImplementedError")
        /\ \A w \in Live :
              w.data = ZeroRequest =>
                  /\ w.pc = "finally"
                  /\ w.exc = "NotImplementedError"
                  /\ w.out = <<>>

\* a full dump was asked of a relational backend whose table holds rows
C18_Witness ==
    /\ backend = "sql"
    /\ Frontiers # {}
    /\ \E w \in Live : w.data = ZeroRequest /\ w.exc = "NotImplementedError"

----------------------------------------------------------------------------
(* The wire codec taken through serialise and parse *)

\* How many entries a server packet holds.
MaxEntries == 2
\* The largest byte value of the accounts taken through the client codec.
MaxByte == 7

\* 32-byte accounts: a first byte followed by 31 equal bytes, the all-zero
\* account and accounts with a single zero or a single non-zero byte included
CodecAccounts == {<<x>> \o Rep(y, AccountLen - 1) : x, y \in 0..MaxByte}

\* entries whose account or hash may be all zero, like a terminator
CodecEntries ==
    {frontier_entry(a, h) : a \in Accounts \cup {ZeroAccount}, h \in Hashes \cup {Rep(0, HashLen)}}

RECURSIVE ListsUpTo(_, _)
ListsUpTo(S, n) ==
    IF n = 0 THEN {<<>>}
    ELSE ListsUpTo(S, n - 1) \cup {Append(l, e) : l \in {k \in ListsUpTo(S, n - 1) : Len(k) = n - 1}, e \in S}

CodecInputs ==
    {[NoCodec EXCEPT !.kind = "client", !.stage = "input", !.account = a] : a \in CodecAccounts}
    \cup {[NoCodec EXCEPT !.kind = "server", !.stage = "input", !.entries = l] :
             l \in ListsUpTo(CodecEntries, MaxEntries)}

CodecFrame ==
    UNCHANGED <<backend, env, storeVars, histVars, apiVars, serverVars, crawlVars, blVars,
                threadVars>>

\* client_packet(account).serialise()
ClientSerialise ==
    /\ codec.kind = "client" /\ codec.stage = "input"
    /\ codec' = [codec EXCEPT !.stage = "wire", !.wire = client_packet_serialise(codec.account)]
    /\ CodecFrame

\* client_packet.parse(data) and is_all_zero() of the packet it returns
ClientParse ==
    /\ codec.kind = "client" /\ codec.stage = "wire"
    /\ LET c_packet == client_packet_parse(codec.wire)
       IN codec' = [codec EXCEPT !.stage = "parsed", !.parsed = c_packet,
                                 !.zero = IF c_packet.exc = "" THEN is_all_zero(c_packet.val)
                                          ELSE FALSE]
    /\ CodecFrame

\* server_packet(entries).serialise()
ServerSerialise ==
    /\ codec.kind = "server" /\ codec.stage = "input"
    /\ codec' = [codec EXCEPT !.stage = "wire", !.wire = server_packet_serialise(codec.entries).val]
    /\ CodecFrame

\* the header parsed from the first 9 bytes; server_packet.parse handed the
\* bytes after the header (parsed), and handed the whole serialised form (whole)
ServerParse ==
    /\ codec.kind = "server" /\ codec.stage = "wire"
    /\ LET s_hdr == server_packet_header_parse(SubSeq(codec.wire, 1, 1 + CountLen))
       IN codec' = [codec EXCEPT
                      !.stage = "parsed",
                      !.count = s_hdr,
                      !.parsed = server_packet_parse(s_hdr.val,
                                     SubSeq(codec.wire, 2 + CountLen, Len(codec.wire))),
                      !.whole = server_packet_parse(s_hdr.val, codec.wire)]
    /\ CodecFrame

InitCodec ==
    /\ backend = "ram"
    /\ EmptyStore
    /\ NoHistory
    /\ ret = NoCall
    /\ snapshot = Raised("")
    /\ ncalls = 0
    /\ env = NoEnv
    /\ codec \in CodecInputs
    /\ NoThreads
    /\ ServerInit
    /\ CrawlInit

NextCodec == ClientSerialise \/ ClientParse \/ ServerSerialise \/ ServerParse

SpecCodec == InitCodec /\ [][NextCodec]_vars

\* C19 as stated: server_packet.parse(header, serialise()) of a packet of N
\* entries yields the N entries in order.
C19_RoundTripOfSerialisedForm ==
    (codec.kind = "server" /\ codec.stage = "parsed") =>
        /\ codec.whole.exc = ""
        /\ codec.whole.val = codec.entries

\* C19, amended: the serialised form of N entries is a 9-byte header of count N,
\* the N records and the 64-byte zero terminator; server_packet.parse handed
\* the parsed header and the bytes after the header yields the N entries in
\* order, and handed the whole serialised form it raises AssertionError.
C19_RoundTripOfBody ==
    (codec.kind = "server" /\ codec.stage = "parsed") =>
        LET N == Len(codec.entries) IN
        /\ Len(codec.wire) = 9 + 64 * N + 64
        /\ codec.count = Returned(N)
        /\ codec.parsed.exc = ""
        /\ Len(codec.parsed.val) = N
        /\ \A i \in 1..N :
              /\ codec.parsed.val[i].account = codec.entries[i].account
              /\ codec.parsed.val[i].frontier_hash = codec.entries[i].frontier_hash
        /\ \A i \in (9 + 64 * N + 1)..(9 + 64 * N + 64) : codec.wire[i] = 0
        /\ codec.whole.exc = "AssertionError"

\* two different entries, the first one all zero like a terminator, came back
C19_Witness ==
    /\ codec.kind = "server" /\ codec.stage = "parsed"
    /\ Len(codec.entries) = 2
    /\ codec.entries[1].account = ZeroAccount
    /\ codec.entries[1].frontier_hash = Rep(0, HashLen)
    /\ codec.entries[2].account = Account2
    /\ codec.parsed.val = codec.entries

\* C20: the serialised form of a client_packet of a 32-byte account is 33
\* bytes starting with 0x4B, parse of it gives back the account exactly, and
\* is_all_zero() is true if and only if the account is 32 zero bytes.
C20_ClientRoundTrip ==
    /\ (codec.kind = "client" /\ codec.stage # "input") =>
          /\ Len(codec.wire) = 33
          /\ codec.wire[1] = 75
    /\ (codec.kind = "client" /\ codec.stage = "parsed") =>
          /\ codec.parsed.exc = ""
          /\ codec.parsed.val = codec.account
          /\ codec.zero <=> (\A i \in 1..32 : codec.account[i] = 0)

\* an account whose first byte alone is zero went through, and is not all zero
C20_Witness ==
    /\ codec.kind = "client" /\ codec.stage = "parsed"
    /\ codec.account[1] = 0
    /\ codec.account[2] # 0
    /\ ~codec.zero
    /\ codec.parsed.val = codec.account

----------------------------------------------------------------------------
(* The decoders handed bytes that did not come from serialise *)

\* byte strings offered to client_packet.parse: every length around 33, with
\* the magic or a neighbour of it (or zero) in front
RawRequests ==
    {SubSeq(<<m>> \o a \o <<9>>, 1, n) :
        m \in {0, MAGIC - 1, MAGIC, MAGIC + 1},
        a \in {ZeroAccount, Account1},
        n \in {0, 1, RequestLen - 1, RequestLen, RequestLen + 1}}

\* bodies offered to server_packet.parse: every length around 64 * m + 64
RawBodies ==
    {Rep(b, 64 * m + 64 + d) : b \in {0, 1}, m \in 0..(MaxEntries + 1), d \in {-1, 0, 1}}

DecodeInputs ==
    {[NoCodec EXCEPT !.kind = "request", !.stage = "wire", !.wire = data] : data \in RawRequests}
    \cup {[NoCodec EXCEPT !.kind = "response", !.stage = "wire", !.wire = data,
                          !.count = Returned(n)] :
             data \in RawBodies, n \in 0..MaxEntries}

\* client_packet.parse(data)
ParseRequest ==
    /\ codec.kind = "request" /\ codec.stage = "wire"
    /\ codec' = [codec EXCEPT !.stage = "parsed", !.parsed = client_packet_parse(codec.wire)]
    /\ CodecFrame

\* server_packet.parse(hdr, data)
ParseResponse ==
    /\ codec.kind = "response" /\ codec.stage = "wire"
    /\ codec' = [codec EXCEPT !.stage = "parsed",
                              !.parsed = server_packet_parse(codec.count.val, codec.wire)]
    /\ CodecFrame

InitDecode ==
    /\ backend = "ram"
    /\ EmptyStore
    /\ NoHistory
    /\ ret = NoCall
    /\ snapshot = Raised("")
    /\ ncalls = 0
    /\ env = NoEnv
    /\ codec \in DecodeInputs
    /\ NoThreads
    /\ ServerInit
    /\ CrawlInit

NextDecode == ParseRequest \/ ParseResponse

SpecDecode == InitDecode /\ [][NextDecode]_vars

\* C21: client_packet.parse raises for a request whose length is not 33 or
\* whose first byte is not 0x4B, and server_packet.parse raises for a body
\* whose length is not 64 * count + 64 for the count of the header; input of
\* the right format is accepted.
C21_OutOfFormatRejected ==
    /\ (codec.kind = "request" /\ codec.stage = "parsed") =>
          IF Len(codec.wire) # 33 \/ codec.wire[1] # 75
          THEN codec.parsed.exc = "AssertionError"
          ELSE codec.parsed.exc = ""
    /\ (codec.kind = "response" /\ codec.stage = "parsed") =>
          IF Len(codec.wire) # 64 * codec.count.val + 64
          THEN codec.parsed.exc = "AssertionError"
          ELSE codec.parsed.exc = ""

\* a body one byte longer than the header's count announces was rejected
C21_Witness ==
    /\ codec.kind = "response" /\ codec.stage = "parsed"
    /\ codec.count.val = 1
    /\ Len(codec.wire) = 64 * 1 + 64 + 1
    /\ codec.parsed.exc = "AssertionError"


----------------------------------------------------------------------------
(* The backend shared by threads: frontier_service.run writes, the
   incoming_connection_handler threads read; no caller holds a lock *)

\* a thread that is not inside a call
ThreadIdle(role) ==
    [role |-> role, pc |-> "idle", op |-> "", frontier |-> NoneVal, existing_front |-> 0,
     result |-> Raised("")]

\* start_service: one thread runs the crawl loop, the others serve queries
CrawlAndWorkers ==
    [t \in {"run", "handler1", "handler2"} |->
        ThreadIdle(IF t = "run" THEN "writer" ELSE "reader")]

\* two threads that write to the same store
TwoWriters == [t \in {"thread1", "thread2"} |-> ThreadIdle("writer")]

\* the number of entries the store holds
StoreSize ==
    CASE backend = "ram" -> Len(ram_frontiers)
      [] backend = "lmdb" -> Cardinality(DOMAIN lmdb_kv)
      [] backend = "sql" -> Cardinality(Frontiers)

\* a thread enters add_frontier. In memory the call starts with get_frontier and
\* another thread may run before the write; LMDB writes inside a write
\* transaction and the relational backend under its cache lock
ThreadAddFrontier ==
    \E t \in DOMAIN threads, a \in Accounts, h \in Hashes, p \in PeerIds :
        /\ threads[t].role = "writer"
        /\ threads[t].pc = "idle"
        /\ ncalls < MaxCalls
        /\ ncalls' = ncalls + 1
        /\ UNCHANGED <<backend, env, histVars, ret, snapshot, serverVars, crawlVars, blVars,
                       codec>>
        /\ IF backend = "ram"
           THEN /\ threads' = [threads EXCEPT ![t] =
                      [@ EXCEPT !.pc = "add_frontier", !.op = "add_frontier",
                                !.frontier = frontier_entry(a, h),
                                !.existing_front = ram_get_frontier(a)]]
                /\ UNCHANGED <<storeVars, sizes>>
           ELSE /\ add_frontier(frontier_entry(a, h), p)
                /\ sizes' = sizes \cup {StoreSize'}
                /\ threads' = [threads EXCEPT ![t] = [@ EXCEPT !.op = "add_frontier"]]

\* the in-memory add_frontier goes on after its get_frontier
ThreadAddFrontierWrite ==
    \E t \in DOMAIN threads :
        /\ threads[t].pc = "add_frontier"
        /\ ram_add_frontier_write(threads[t].frontier, threads[t].existing_front)
        /\ sizes' = sizes \cup {Len(ram_frontiers')}
        /\ threads' = [threads EXCEPT ![t] = [@ EXCEPT !.pc = "idle"]]
        /\ UNCHANGED <<backend, env, lmdb_kv, Frontiers, Peers, cache, peers_stored, histVars,
                       apiVars, serverVars, crawlVars, blVars, codec>>

\* a thread enters the in-memory remove_frontier: get_frontier first
ThreadRemoveFrontier ==
    \E t \in DOMAIN threads, a \in Accounts :
        /\ threads[t].role = "writer"
        /\ threads[t].pc = "idle"
        /\ backend = "ram"
        /\ ncalls < MaxCalls
        /\ ncalls' = ncalls + 1
        /\ threads' = [threads EXCEPT ![t] =
              [@ EXCEPT !.pc = "remove_frontier", !.op = "remove_frontier",
                        !.frontier = frontier_entry(a, HashAA),
                        !.existing_front = ram_get_frontier(a)]]
        /\ UNCHANGED <<backend, env, storeVars, sizes, histVars, ret, snapshot, serverVars,
                       crawlVars, blVars, codec>>

\* the in-memory remove_frontier goes on after its get_frontier
ThreadRemoveFrontierWrite ==
    \E t \in DOMAIN threads :
        /\ threads[t].pc = "remove_frontier"
        /\ ram_remove_frontier_write(threads[t].existing_front)
        /\ sizes' = sizes \cup {Len(ram_frontiers')}
        /\ threads' = [threads EXCEPT ![t] = [@ EXCEPT !.pc = "idle"]]
        /\ UNCHANGED <<backend, env, lmdb_kv, Frontiers, Peers, cache, peers_stored, histVars,
                       apiVars, serverVars, crawlVars, blVars, codec>>

\* a reader calls get_all() and keeps the result
ThreadGetAll ==
    \E t \in DOMAIN threads :
        /\ threads[t].role = "reader"
        /\ threads' = [threads EXCEPT ![t] = [@ EXCEPT !.op = "get_all", !.result = get_all]]
        /\ UNCHANGED <<backend, env, storeVars, sizes, histVars, apiVars, serverVars,
                       crawlVars, blVars, codec>>

\* a reader calls count_frontiers() and keeps the result
ThreadCountFrontiers ==
    \E t \in DOMAIN threads :
        /\ threads[t].role = "reader"
        /\ threads' = [threads EXCEPT ![t] =
              [@ EXCEPT !.op = "count_frontiers", !.result = count_frontiers]]
        /\ UNCHANGED <<backend, env, storeVars, sizes, histVars, apiVars, serverVars,
                       crawlVars, blVars, codec>>

InitThreads(backends, ts) ==
    /\ backend \in backends
    /\ EmptyStore
    /\ NoHistory
    /\ ret = NoCall
    /\ snapshot = Raised("")
    /\ ncalls = 0
    /\ env = NoEnv
    /\ codec = NoCodec
    /\ ServerInit
    /\ CrawlInit
    /\ threads = ts
    /\ sizes = {0}

InitShared == InitThreads({"ram", "lmdb", "sql"}, CrawlAndWorkers)

NextShared ==
    ThreadAddFrontier \/ ThreadAddFrontierWrite \/ ThreadGetAll \/ ThreadCountFrontiers

SpecShared == InitShared /\ [][NextShared]_vars

InitWriters == InitThreads({"ram"}, TwoWriters)

NextWriters ==
    ThreadAddFrontier \/ ThreadAddFrontierWrite \/ ThreadRemoveFrontier
    \/ ThreadRemoveFrontierWrite

SpecWriters == InitWriters /\ [][NextWriters]_vars

\* the accounts of a get_all() result are pairwise different
DistinctAccounts(list) ==
    \A i, j \in 1..Len(list) : i # j => Deref(list[i]).account # Deref(list[j]).account

\* C22: while the crawl loop calls add_frontier and the query-server workers
\* call get_all and count_frontiers on the same backend, in any interleaving,
\* no get_all result holds two entries of one account, and every
\* count_frontiers result is the number of entries of a state the store
\* passed through.
C22_ReadersSeeConsistentStore ==
    \A t \in DOMAIN threads :
        /\ (threads[t].op = "get_all" /\ threads[t].result.exc = "") =>
              DistinctAccounts(threads[t].result.val)
        /\ (threads[t].op = "count_frontiers" /\ threads[t].result.exc = "") =>
              threads[t].result.val \in sizes

\* one worker holds a dump of two accounts, another a count taken earlier, and
\* the crawl loop stands between the lookup and the write of an update
C22_Witness ==
    /\ threads # <<>>
    /\ \E t \in DOMAIN threads :
          /\ threads[t].op = "get_all" /\ threads[t].result.exc = ""
          /\ Len(threads[t].result.val) = 2
    /\ \E t \in DOMAIN threads :
          /\ threads[t].op = "count_frontiers" /\ threads[t].result.exc = ""
          /\ threads[t].result.val = 1
    /\ \E t \in DOMAIN threads :
          threads[t].pc = "add_frontier" /\ threads[t].existing_front # 0

\* C23: the in-memory backend holds at most one entry per account under any
\* interleaving of add_frontier and remove_frontier calls made by two threads
\* that hold no lock.
C23_OneEntryPerAccount ==
    backend = "ram" => \A a \in Accounts : RecordsOf(a) <= 1


----------------------------------------------------------------------------
(* Requests that reach the server in more than one chunk *)

\* data is what the first s.recv(33) returns of a well-formed request: all of
\* it, or the chunk that has arrived so far
FirstChunkOfRequest(data) ==
    \E a \in Accounts : \E n \in 1..RequestLen : data = SubSeq(Request(a), 1, n)

\* C24: a well-formed 33-byte request is parsed and answered however the
\* transport delivers it, also when the 33 bytes arrive in more than one chunk
\* within the read timeout: the worker does not reject what it has read.
C24_ChunkedRequestParsed ==
    \A w \in Live :
        (w.pc # "recv" /\ FirstChunkOfRequest(w.data)) => w.exc # "AssertionError"


----------------------------------------------------------------------------
(* What a refresh of the registry adds *)

\* a peer source whose lists hold peers that fail the filter: one not on IPv4,
\* one with a score below 1000, and a list of which nothing is left
RefreshEnv ==
    [clients |-> 0,
     requests |-> {},
     peer_lists |-> {<<PeerDesc("p1", MinPeerScore, TRUE), PeerDesc("p2", MinPeerScore, FALSE)>>,
                     <<PeerDesc("p2", MinPeerScore - 1, TRUE), PeerDesc("p1", MinPeerScore, TRUE)>>,
                     <<PeerDesc("p2", MinPeerScore, TRUE)>>,
                     <<PeerDesc("p1", MinPeerScore - 1, FALSE)>>},
     records |-> {frontier_entry(Account1, HashAA)}]

InitRefresh == InitWith(RefreshEnv)

SpecRefresh == InitRefresh /\ [][NextExclusion]_vars

\* the peer has a blacklist entry whose TTL has not elapsed
CurrentlyBlacklisted(p) == HasEntry(p) /\ Age(p) <= BlacklistTTL

\* the peers of a returned list that a refresh is to add
ExpectedNew(list) ==
    {list[i].id : i \in {k \in 1..Len(list) :
        /\ list[k].score >= 1000
        /\ list[k].is_ipv4
        /\ ~CurrentlyBlacklisted(list[k].id)
        /\ list[k].id \notin DOMAIN peers}}

\* a step of run that is a fetch_peers, whether or not its assert holds
RefreshStep == crawl_pc = "fetch_peers" /\ crawl_pc' # "fetch_peers"

----------------------------------------------------------------------------
(* A pull from a peer whose whole stream is known *)

\* peers that send up to MaxStream records and the end marker
PullEnv ==
    [clients |-> 0,
     requests |-> {},
     peer_lists |-> {<<PeerDesc("p1", MinPeerScore, TRUE), PeerDesc("p2", MinPeerScore, TRUE)>>},
     records |-> {},
     streams |-> MaxStream + 1]

InitPull == InitWith(PullEnv)

SpecPull == InitPull /\ [][NextCrawl]_vars

\* the records of the stream in front of its first end marker
RECURSIVE BeforeMarker(_)
BeforeMarker(stream) ==
    IF stream = <<>> \/ is_end_marker(Head(stream)) THEN <<>>
    ELSE <<Head(stream)>> \o BeforeMarker(Tail(stream))

\* the read that comes next returns the end marker
MarkerIsNext ==
    /\ crawl_pc = "pull"
    /\ pull.n < Len(pull.stream)
    /\ is_end_marker(pull.stream[pull.n + 1])

\* C26: within one pull the records the peer streams are passed to
\* add_frontier one by one in the order received, each with the peer they came
\* from; the pull stops at the first end marker, the marker is never stored,
\* and no record after the marker is read or stored.
C26_StreamStoredUpToMarker ==
    /\ [](crawl_pc = "pull" =>
            /\ pull.n = Len(pull.calls)
            /\ pull.n <= Len(BeforeMarker(pull.stream))
            /\ \A i \in 1..pull.n :
                  pull.calls[i] = [frontier |-> pull.stream[i], peer |-> pull.peer])
    /\ [][MarkerIsNext => (pull' = NoPull /\ storeVars' = storeVars)]_vars

\* a record was stored, the marker comes next, and the peer's stream goes on
\* after the marker
C26_Witness ==
    /\ MarkerIsNext
    /\ pull.n >= 1
    /\ Len(pull.stream) > pull.n + 1


----------------------------------------------------------------------------
(* The write batch of the relational backend *)

\* a step that is a call of add_frontier made directly on the backend
AddFrontierStep == ncalls' = ncalls + 1 /\ ret'.op = ""

\* rows r and t are for the same (peer_id, account_hash), the key of the table
SameKey(r, t) == r.peer_id = t.peer_id /\ r.account_hash = t.account_hash

\* the table after one bulk upsert of the rows: for every key among them the
\* row inserted last, and the other rows of the table as they were
AfterBulkUpsert(rows) ==
    {t \in Frontiers : \A i \in 1..Len(rows) : ~SameKey(rows[i], t)}
    \cup {rows[i] : i \in {k \in 1..Len(rows) :
                              \A j \in (k + 1)..Len(rows) : ~SameKey(rows[j], rows[k])}}

\* C27: on the relational backend the pending batch holds at most BATCH_SIZE
\* rows once add_frontier is over; the call that makes it exceed BATCH_SIZE
\* issues all pending rows in insertion order as one bulk upsert (which the
\* database rejects as a whole when a row's peer is not in Peers) and leaves the
\* batch empty; a call that leaves the batch at BATCH_SIZE rows or fewer
\* writes no frontier row.
C27_BatchFlushedAboveBatchSize ==
    /\ [](backend = "sql" => Len(cache) <= BATCH_SIZE)
    /\ [][(backend = "sql" /\ AddFrontierStep) =>
            \E p \in PeerIds, a \in Accounts, h \in Hashes :
               LET pending == Append(cache, SqlRow(p, frontier_entry(a, h))) IN
               IF Len(pending) > BATCH_SIZE
               THEN /\ cache' = <<>>
                    /\ Frontiers' = IF \A i \in 1..Len(pending) : pending[i].peer_id \in Peers'
                                    THEN AfterBulkUpsert(pending)
                                    ELSE Frontiers
               ELSE /\ cache' = pending
                    /\ Frontiers' = Frontiers]_vars

\* a flush has written the later of two rows for the same key, and a row of
\* the next batch is pending
C27_Witness ==
    /\ backend = "sql"
    /\ Len(cache) = BATCH_SIZE
    /\ \E a \in Accounts : updated[a] /\ \E t \in Frontiers : t.account_hash = hexlify(a)


----------------------------------------------------------------------------
(* A pull that fails *)

\* C28: a failed pull is not rolled back: when the pull from a peer fails after
\* k records have been handed to add_frontier, the store is left as those k
\* calls made it, the k records being the first k of the peer's stream in
\* order, and the peer's score drops by 200.
C28_FailedPullKeepsRecords ==
    [][\A p \in PeerIds :
          failures'[p] = failures[p] + 1 =>
              /\ storeVars' = storeVars
              /\ crawl_pc = "pull" =>
                    pull.calls = [i \in 1..pull.n |-> [frontier |-> pull.stream[i], peer |-> p]]
              /\ peers'[p] = peers[p] - ScorePenalty]_vars

====
